---- MODULE Spec2Model ----
(***************************************************************************)
(* State-machine model of the useLayercodeAgent hook (src/src/index.tsx).  *)
(* Every useState cell and every useRef cell of the hook is a variable,    *)
(* every async function of the hook is split at its awaits, and the        *)
(* external streaming client is an environment that resolves or rejects   *)
(* the promises it handed out and fires the callbacks it was given.        *)
(***************************************************************************)
EXTENDS Integers, Sequences, FiniteSets, TLC

\* ------------------------------------------------------------------ bounds
MaxClients == 3      \* connect() calls in a run that exercises the handle slot alone
MaxConnects == 2     \* connect() calls in a run that also exercises callbacks or props
MaxCalls == 2        \* connect()/disconnect()/selectInputDevice() calls in flight
MaxRefreshes == 2    \* refreshInputDevices() calls in flight
MaxDevices == 2      \* length of an enumerated device list, registry alone
MaxSessionDevices == 1  \* length of an enumerated device list, registry with the session
MaxObservedConnects == 1  \* connect() calls in a run that exercises the caller's observers

\* ------------------------------------------------------------------ values
NULL == "null"
UNDEFINED == "undefined"

ConversationIds == {"abc", "xyz"}
Statuses == {"connecting", "connected", "disconnected"}
Amplitudes == {0, 1}
DeviceIds == {"default", "A", "B"}
RawDeviceIds == DeviceIds \cup {"", NULL}
EnumerationError == "Unable to access microphones"
SwitchError == "Unable to switch microphone"
\* what the promises of a client reject with
TeardownError == "disconnect failed in connect"
DisconnectError == "disconnect failed"
PreferenceError == "setPreferredInputDevice failed"
ConnectError == "connect failed"
UnmuteError == "unmute failed"
AudioInputError == "setAudioInput failed"
AudioOutputError == "setAudioOutput failed"

VARIABLES
  conversationIdRef,          \* useRef: the caller's conversationId prop
  internalConversationId,     \* useState
  clientRef,                  \* useRef: 0 is null, else index into clients
  mountedRef,                 \* useRef
  preferredInputDeviceRef,    \* useRef
  status,
  userAudioAmplitude,
  agentAudioAmplitude,
  userSpeaking,
  agentSpeaking,
  isMuted,
  audioInput,
  audioOutput,
  availableInputDevices,
  activeInputDeviceId,
  preferredInputDeviceId,
  isInputDeviceListLoading,
  inputDeviceListError,
  autoLoadInputDevices,       \* option
  enableAmplitudeMonitoring,  \* option
  clients,                    \* every LayercodeClient constructed so far
  calls,                      \* async calls of the hook suspended at an await
  refreshesInFlight,          \* refreshInputDevices() calls awaiting listAudioInputDevices
  connectsLeft,               \* connect() calls the caller still makes in this run
  firstResolvedId,            \* history: the first id an onConnect delivered since the
                              \* caller last set its conversationId prop
  explicitChoice,             \* history: selectInputDevice has been called
  lastAction                  \* the step taken last and what it was given

identityVars == <<conversationIdRef, internalConversationId, firstResolvedId>>
telemetryVars == <<status, userAudioAmplitude, agentAudioAmplitude, userSpeaking, agentSpeaking, isMuted>>
enablementVars == <<audioInput, audioOutput>>
deviceVars == <<availableInputDevices, activeInputDeviceId, preferredInputDeviceId,
                preferredInputDeviceRef, isInputDeviceListLoading, inputDeviceListError,
                refreshesInFlight>>
optionVars == <<autoLoadInputDevices, enableAmplitudeMonitoring>>
handleVars == <<clientRef, clients, calls, connectsLeft>>

vars == <<identityVars, telemetryVars, enablementVars, deviceVars, optionVars, explicitChoice, handleVars,
          mountedRef, lastAction>>

snapshot == <<status, userAudioAmplitude, agentAudioAmplitude, userSpeaking, agentSpeaking,
              isMuted, internalConversationId, audioInput, audioOutput, availableInputDevices,
              activeInputDeviceId, preferredInputDeviceId, isInputDeviceListLoading,
              inputDeviceListError>>

\* ------------------------------------------------------------------ helpers
\* a ?? b
Coalesce(a, b) == IF a \in {NULL, UNDEFINED} THEN b ELSE a

normalizeDeviceId(deviceId) ==
  IF deviceId \in {NULL, UNDEFINED, ""} \/ deviceId = "default" THEN NULL ELSE deviceId

shouldManageInputDevices == autoLoadInputDevices \/ audioInput

\* LayercodeAudioInputDevice, without its label
DeviceRecords == [deviceId : DeviceIds, default : BOOLEAN]
\* what the platform enumerates: distinct ids, at most one device flagged default
DeviceLists(maxLen) ==
  {l \in UNION {[1..n -> DeviceRecords] : n \in 0..maxLen} :
     /\ \A i, j \in DOMAIN l : l[i].deviceId = l[j].deviceId => i = j
     /\ \A i, j \in DOMAIN l : l[i].default /\ l[j].default => i = j}
deviceIdsOf(devices) == {devices[i].deviceId : i \in DOMAIN devices}

\* devices.find((device) => device.default) ?? devices[0], for a non-empty list
defaultDevice(devices) ==
  IF \E i \in DOMAIN devices : devices[i].default
    THEN devices[CHOOSE i \in DOMAIN devices :
                   devices[i].default /\ \A j \in DOMAIN devices : devices[j].default => i <= j]
    ELSE devices[1]

IdleCall == [op |-> "idle", pc |-> "idle", client |-> 0,
             internalConversationId |-> UNDEFINED, explicitAtCall |-> UNDEFINED,
             firstResolvedAtCall |-> UNDEFINED, onConnectFired |-> FALSE,
             audioInput |-> FALSE, audioOutput |-> FALSE, enableAmplitudeMonitoring |-> FALSE]

CallSlots == 1..MaxCalls
FreeSlots == {s \in CallSlots : calls[s].op = "idle"}
\* the slot a new call is suspended in
NextSlot == CHOOSE s \in FreeSlots : \A t \in FreeSlots : s <= t

Created == 1..Len(clients)
\* a step of the hook: the client it issued an operation on or that called
\* back (0 when none), what it was given, and how the call stands after it
Act(name, client, arg, result) ==
  [name |-> name, client |-> client, arg |-> arg, result |-> result,
   error |-> NULL, onError |-> NULL, observed |-> NULL]
\* a step in which a promise rejected: error is what it rejected with, result
\* is "rejected" when the hook rethrows it to its caller, and reported is what
\* the hook passed to the caller's onError (NULL when it did not call it)
Failure(name, client, arg, result, error, reported) ==
  [name |-> name, client |-> client, arg |-> arg, result |-> result,
   error |-> error, onError |-> reported, observed |-> NULL]
\* a callback of a client that calls a state setter and then the caller's
\* observer: seen is the value of the field in the snapshot the caller can read
\* while the observer runs. React applies the update when it next renders;
\* that render has taken place when the setter returns only if React did not
\* batch the update, so seen is the value before or the value after
Observed(name, client, arg, before, after) ==
  {[name |-> name, client |-> client, arg |-> arg, result |-> "none",
    error |-> NULL, onError |-> NULL, observed |-> seen] : seen \in {before, after}}

\* new LayercodeClient({...}): the instance and what the model records about it
NewClient(initialConversationId, ain, aout, amp) ==
  [conversationId |-> initialConversationId,
   audioInput |-> ain,
   audioOutput |-> aout,
   enableAmplitudeMonitoring |-> amp,
   audioInputEnabled |-> ain,
   isMuted |-> FALSE,
   disconnectCalls |-> 0,        \* times disconnect() was invoked on it
   connectCalls |-> 0,           \* times connect() was invoked on it
   spoke |-> FALSE,              \* it has fired a speaking callback
   preferenceApplied |-> FALSE,  \* a setPreferredInputDevice on it has resolved
   tornDown |-> FALSE,           \* a disconnect() on it has resolved
   floating |-> FALSE]           \* the unmount cleanup's disconnect() on it is pending

\* ------------------------------------------------------------------ initial state
\* The state after the first render and its effects, for the options the
\* caller passed: conversationId, audioInput, autoLoadInputDevices; connects
\* is the number of connect() calls the run is followed for.
InitWith(conversationId, ain, autoLoad, connects) ==
  /\ connectsLeft = connects
  /\ conversationIdRef = conversationId
  /\ internalConversationId = conversationId
  /\ firstResolvedId = UNDEFINED
  /\ explicitChoice = FALSE
  /\ clientRef = 0
  /\ mountedRef = TRUE
  /\ preferredInputDeviceRef = NULL
  /\ status = "initializing"
  /\ userAudioAmplitude = 0
  /\ agentAudioAmplitude = 0
  /\ userSpeaking = FALSE
  /\ agentSpeaking = FALSE
  /\ isMuted = FALSE
  /\ audioInput = ain
  /\ audioOutput = TRUE
  /\ availableInputDevices = <<>>
  /\ activeInputDeviceId = NULL
  /\ preferredInputDeviceId = NULL
  /\ inputDeviceListError = NULL
  /\ autoLoadInputDevices = autoLoad
  /\ enableAmplitudeMonitoring = TRUE
  /\ clients = <<>>
  /\ calls = [s \in CallSlots |-> IdleCall]
  \* the mount effect has started a refresh when devices are managed
  /\ isInputDeviceListLoading = (autoLoad \/ ain)
  /\ refreshesInFlight = IF autoLoad \/ ain THEN 1 ELSE 0
  /\ lastAction = Act("mount", 0, NULL, "none")

\* ------------------------------------------------------------------ refreshInputDevices
\* lines 101-103: the synchronous part of refreshInputDevices, up to its await
refreshInputDevicesStart ==
  /\ isInputDeviceListLoading' = TRUE
  /\ refreshesInFlight' = refreshesInFlight + 1

\* a refresh that falls back to the registry default when the preferred
\* device is not in the list
refreshActiveDeviceFallsBack(devices) ==
  IF Len(devices) = 0
    THEN NULL
    ELSE IF preferredInputDeviceRef = NULL
              \/ preferredInputDeviceRef \notin {normalizeDeviceId(id) : id \in deviceIdsOf(devices)}
           THEN normalizeDeviceId(defaultDevice(devices).deviceId)
           ELSE activeInputDeviceId

\* a refresh that recomputes the active device whatever the preference
refreshActiveDeviceRecomputes(devices) ==
  IF Len(devices) = 0 THEN NULL ELSE normalizeDeviceId(defaultDevice(devices).deviceId)

\* lines 110-118: the active device after a successful enumeration
refreshActiveDevice(devices) ==
  IF Len(devices) = 0
    THEN NULL
    ELSE IF preferredInputDeviceRef = NULL
           THEN normalizeDeviceId(defaultDevice(devices).deviceId)
           ELSE activeInputDeviceId

\* the caller invokes refreshInputDevices()
RefreshInputDevices ==
  /\ mountedRef
  /\ refreshesInFlight < MaxRefreshes
  /\ refreshInputDevicesStart
  /\ lastAction' = Act("refreshInputDevices", 0, NULL, "pending")
  /\ UNCHANGED <<identityVars, telemetryVars, enablementVars, availableInputDevices,
                 activeInputDeviceId, preferredInputDeviceId, preferredInputDeviceRef,
                 inputDeviceListError, optionVars, explicitChoice, handleVars, mountedRef>>

\* line 103 resumes with the enumerated devices (lines 104-120, 126-130)
RefreshDone(devices) ==
  /\ refreshesInFlight > 0
  /\ refreshesInFlight' = refreshesInFlight - 1
  /\ IF mountedRef
       THEN /\ availableInputDevices' = devices
            /\ inputDeviceListError' = NULL
            /\ activeInputDeviceId' = refreshActiveDevice(devices)
            /\ isInputDeviceListLoading' = FALSE
       ELSE UNCHANGED <<availableInputDevices, inputDeviceListError, activeInputDeviceId,
                        isInputDeviceListLoading>>
  /\ lastAction' = Act("refresh.done", 0, devices, "resolved")
  /\ UNCHANGED <<identityVars, telemetryVars, enablementVars, preferredInputDeviceId,
                 preferredInputDeviceRef, optionVars, explicitChoice, handleVars, mountedRef>>

\* a failed refresh that forgets the devices it had
RefreshFailClearsList ==
  /\ refreshesInFlight > 0
  /\ refreshesInFlight' = refreshesInFlight - 1
  /\ inputDeviceListError' = EnumerationError
  /\ isInputDeviceListLoading' = FALSE
  /\ availableInputDevices' = <<>>
  /\ activeInputDeviceId' = NULL
  /\ lastAction' = Failure("refresh.done", 0, NULL, "rejected", EnumerationError, NULL)
  /\ UNCHANGED <<identityVars, telemetryVars, enablementVars,
                 preferredInputDeviceId, preferredInputDeviceRef,
                 optionVars, explicitChoice, handleVars, mountedRef>>

\* line 103 throws (lines 121-130)
RefreshFail ==
  /\ refreshesInFlight > 0
  /\ refreshesInFlight' = refreshesInFlight - 1
  /\ IF mountedRef
       THEN /\ inputDeviceListError' = EnumerationError
            /\ isInputDeviceListLoading' = FALSE
       ELSE UNCHANGED <<inputDeviceListError, isInputDeviceListLoading>>
  /\ lastAction' = Failure("refresh.done", 0, NULL, "rejected", EnumerationError, NULL)
  /\ UNCHANGED <<identityVars, telemetryVars, enablementVars, availableInputDevices,
                 activeInputDeviceId, preferredInputDeviceId, preferredInputDeviceRef,
                 optionVars, explicitChoice, handleVars, mountedRef>>

\* a hot-plug delivery that takes the first device, flagged default or not
watchActiveDeviceTakesFirst(devices) ==
  IF Len(devices) # 0 /\ preferredInputDeviceRef = NULL
    THEN normalizeDeviceId(devices[1].deviceId)
    ELSE IF Len(devices) = 0 THEN NULL ELSE activeInputDeviceId

\* lines 177-182: the active device after a hot-plug delivery
watchActiveDevice(devices) ==
  IF Len(devices) # 0 /\ preferredInputDeviceRef = NULL
    THEN normalizeDeviceId(defaultDevice(devices).deviceId)
    ELSE IF Len(devices) = 0 THEN NULL ELSE activeInputDeviceId

\* a hot-plug delivery that adopts the registry default as the preference
WatchDeliveryAdoptsDefault(devices) ==
  /\ mountedRef
  /\ shouldManageInputDevices
  /\ availableInputDevices' = devices
  /\ inputDeviceListError' = NULL
  /\ activeInputDeviceId' = watchActiveDevice(devices)
  /\ preferredInputDeviceId' = IF Len(devices) # 0
                                 THEN normalizeDeviceId(defaultDevice(devices).deviceId)
                                 ELSE preferredInputDeviceId
  /\ lastAction' = Act("watch", 0, devices, "none")
  /\ UNCHANGED <<identityVars, telemetryVars, enablementVars,
                 preferredInputDeviceRef, isInputDeviceListLoading, refreshesInFlight,
                 optionVars, explicitChoice, handleVars, mountedRef>>

\* lines 174-183: watchAudioInputDevices delivers a list while the subscription is held
WatchDelivery(devices) ==
  /\ mountedRef
  /\ shouldManageInputDevices
  /\ availableInputDevices' = devices
  /\ inputDeviceListError' = NULL
  /\ activeInputDeviceId' = watchActiveDevice(devices)
  /\ lastAction' = Act("watch", 0, devices, "none")
  /\ UNCHANGED <<identityVars, telemetryVars, enablementVars, preferredInputDeviceId,
                 preferredInputDeviceRef, isInputDeviceListLoading, refreshesInFlight,
                 optionVars, explicitChoice, handleVars, mountedRef>>

\* ------------------------------------------------------------------ device preference
\* a selectInputDevice that stores the id as given
selectedPreferenceRaw(deviceId) == deviceId

\* lines 357-360: what selectInputDevice stores before it looks at the handle
selectedPreference(deviceId) == normalizeDeviceId(deviceId)

\* selectInputDevice(deviceId), up to its await
SelectInputDevice(deviceId) ==
  /\ mountedRef
  /\ preferredInputDeviceId' = selectedPreference(deviceId)
  /\ preferredInputDeviceRef' = selectedPreference(deviceId)
  /\ inputDeviceListError' = NULL
  /\ explicitChoice' = TRUE
  /\ IF clientRef = 0
       THEN \* lines 362-364
            /\ lastAction' = Act("selectInputDevice", 0, deviceId, "resolved")
            /\ UNCHANGED calls
       ELSE \* line 367
            /\ FreeSlots # {}
            /\ calls' = [calls EXCEPT ![NextSlot] =
                           [IdleCall EXCEPT !.op = "selectInputDevice", !.pc = "awaitSwitch",
                                            !.client = clientRef]]
            /\ lastAction' = Act("selectInputDevice", clientRef, deviceId, "pending")
  /\ UNCHANGED <<identityVars, telemetryVars, enablementVars, availableInputDevices,
                 activeInputDeviceId, isInputDeviceListLoading, refreshesInFlight, optionVars,
                 clientRef, clients, connectsLeft, mountedRef>>

\* a selectInputDevice that swallows the failure of the switch
SelectDoneSwallowsFailure(s, ok) ==
  /\ calls[s].op = "selectInputDevice" /\ calls[s].pc = "awaitSwitch"
  /\ calls' = [calls EXCEPT ![s] = IdleCall]
  /\ lastAction' = IF ok
                     THEN Act("selectInputDevice.done", calls[s].client, NULL, "resolved")
                     ELSE Failure("selectInputDevice.done", calls[s].client, NULL, "resolved",
                                  SwitchError, NULL)
  /\ UNCHANGED <<identityVars, telemetryVars, enablementVars, deviceVars, optionVars, explicitChoice,
                 clientRef, clients, connectsLeft, mountedRef>>

\* line 367 resumes: the switch resolved, or it rejected (lines 368-372)
SelectDone(s, ok) ==
  /\ calls[s].op = "selectInputDevice" /\ calls[s].pc = "awaitSwitch"
  /\ calls' = [calls EXCEPT ![s] = IdleCall]
  /\ inputDeviceListError' = IF ok THEN inputDeviceListError ELSE SwitchError
  /\ lastAction' = IF ok
                     THEN Act("selectInputDevice.done", calls[s].client, NULL, "resolved")
                     ELSE Failure("selectInputDevice.done", calls[s].client, NULL, "rejected",
                                  SwitchError, NULL)
  /\ UNCHANGED <<identityVars, telemetryVars, enablementVars, availableInputDevices,
                 activeInputDeviceId, preferredInputDeviceId, preferredInputDeviceRef,
                 isInputDeviceListLoading, refreshesInFlight, optionVars, explicitChoice, clientRef, clients,
                 connectsLeft, mountedRef>>

\* lines 155-157: after a render in which preferredInputDeviceId changed, the
\* effect copies it into the ref
PreferredInputDeviceEffect ==
  /\ mountedRef
  /\ preferredInputDeviceRef # preferredInputDeviceId
  /\ preferredInputDeviceRef' = preferredInputDeviceId
  /\ lastAction' = Act("effect.preferredInputDeviceRef", 0, NULL, "none")
  /\ UNCHANGED <<identityVars, telemetryVars, enablementVars, availableInputDevices,
                 activeInputDeviceId, preferredInputDeviceId, isInputDeviceListLoading,
                 inputDeviceListError, refreshesInFlight, optionVars, explicitChoice, handleVars, mountedRef>>

\* ------------------------------------------------------------------ connect
\* a connect() that forgets the identity resolved by earlier connections
nextConversationIdForgetsResolved(captured) ==
  IF conversationIdRef # UNDEFINED THEN conversationIdRef ELSE NULL

\* a connect() that lets the resolved identity win over the caller's
nextConversationIdPrefersResolved(captured) ==
  Coalesce(Coalesce(captured, conversationIdRef), NULL)

\* line 397: captured is the internalConversationId the closure of connect holds
nextConversationId(captured) ==
  Coalesce(IF conversationIdRef # UNDEFINED THEN conversationIdRef ELSE Coalesce(captured, NULL),
           NULL)

\* createClient (lines 190-281): construct the client with the configuration
\* the closure holds, reset the speaking flags, mirror the client's mute flag
\* and install the client as the current handle. The amplitudes are not touched.
\* existing is the sequence of clients constructed so far.
createClient(existing, initialConversationId, ain, aout, amp) ==
  /\ clients' = Append(existing, NewClient(initialConversationId, ain, aout, amp))
  /\ userSpeaking' = FALSE
  /\ agentSpeaking' = FALSE
  /\ isMuted' = NewClient(initialConversationId, ain, aout, amp).isMuted
  /\ clientRef' = Len(existing) + 1
  /\ UNCHANGED <<status, userAudioAmplitude, agentAudioAmplitude>>

\* line 402: the preference connect() hands to setPreferredInputDevice
preferenceToApply == preferredInputDeviceRef

\* a connect() that issues the client's connect() together with
\* setPreferredInputDevice, without awaiting the latter
connectCreateWithoutAwaitingPreference(s, call, existing) ==
  /\ clients' = Append(existing,
                       [NewClient(nextConversationId(call.internalConversationId),
                                  call.audioInput, call.audioOutput,
                                  call.enableAmplitudeMonitoring)
                          EXCEPT !.connectCalls = 1])
  /\ userSpeaking' = FALSE
  /\ agentSpeaking' = FALSE
  /\ isMuted' = FALSE
  /\ clientRef' = Len(existing) + 1
  /\ UNCHANGED <<status, userAudioAmplitude, agentAudioAmplitude>>
  /\ calls' = [calls EXCEPT ![s] = [IdleCall EXCEPT !.op = "connect", !.pc = "awaitConnect",
                                                    !.client = Len(existing) + 1]]

\* lines 397-402: resolve the identity, create the client and issue
\* setPreferredInputDevice on it; the call suspends at that await in slot s.
\* Nothing the closure captured is read after this point.
connectCreate(s, call, existing) ==
  /\ createClient(existing, nextConversationId(call.internalConversationId),
                  call.audioInput, call.audioOutput, call.enableAmplitudeMonitoring)
  /\ calls' = [calls EXCEPT ![s] = [IdleCall EXCEPT !.op = "connect", !.pc = "awaitPref",
                                                    !.client = Len(existing) + 1]]

\* what the closures of this render capture when connect() is called
ConnectCall ==
  [op |-> "connect", pc |-> "start", client |-> 0,
   internalConversationId |-> internalConversationId,
   explicitAtCall |-> conversationIdRef,
   firstResolvedAtCall |-> firstResolvedId, onConnectFired |-> FALSE,
   audioInput |-> audioInput, audioOutput |-> audioOutput,
   enableAmplitudeMonitoring |-> enableAmplitudeMonitoring]

\* connect(), up to its first await
Connect ==
  /\ FreeSlots # {}
  /\ connectsLeft > 0
  /\ connectsLeft' = connectsLeft - 1
  /\ IF clientRef # 0
       THEN \* line 390: disconnect the existing client and await it
            /\ clients' = [clients EXCEPT ![clientRef].disconnectCalls = @ + 1]
            /\ calls' = [calls EXCEPT ![NextSlot] =
                           [ConnectCall EXCEPT !.pc = "awaitTeardown", !.client = clientRef]]
            /\ lastAction' = Act("connect", 0, NULL, "pending")
            /\ UNCHANGED <<clientRef, telemetryVars>>
       ELSE /\ connectCreate(NextSlot, ConnectCall, clients)
            /\ lastAction' = Act("connect", Len(clients) + 1, preferenceToApply, "pending")
  /\ UNCHANGED <<identityVars, enablementVars, deviceVars, optionVars, explicitChoice, mountedRef>>

\* a connect() that gives up when the teardown of the old client fails
ConnectTeardownDoneRethrows(s, ok) ==
  /\ calls[s].op = "connect" /\ calls[s].pc = "awaitTeardown"
  /\ IF ok
       THEN /\ connectCreate(s, calls[s], [clients EXCEPT ![calls[s].client].tornDown = TRUE])
            /\ lastAction' = Act("connect.teardownDone", Len(clients) + 1,
                                 preferenceToApply, "pending")
       ELSE /\ calls' = [calls EXCEPT ![s] = IdleCall]
            /\ lastAction' = Failure("connect.teardownDone", 0, NULL, "rejected",
                                     TeardownError, TeardownError)
            /\ UNCHANGED <<clientRef, clients, telemetryVars>>
  /\ UNCHANGED <<identityVars, enablementVars, deviceVars, optionVars, explicitChoice, mountedRef, connectsLeft>>

\* line 390 resumes: the old client's disconnect() resolved (ok) or rejected;
\* either way the slot is cleared and the new client is created
ConnectTeardownDone(s, ok) ==
  /\ calls[s].op = "connect" /\ calls[s].pc = "awaitTeardown"
  /\ LET old == calls[s].client
     IN /\ connectCreate(s, calls[s], [clients EXCEPT ![old].tornDown = @ \/ ok])
        /\ lastAction' = IF ok
                           THEN Act("connect.teardownDone", Len(clients) + 1,
                                    preferenceToApply, "pending")
                           ELSE \* lines 391-393: the failure is logged and connect goes on
                                Failure("connect.teardownDone", Len(clients) + 1,
                                        preferenceToApply, "pending", TeardownError, NULL)
  /\ UNCHANGED <<identityVars, enablementVars, deviceVars, optionVars, explicitChoice, mountedRef, connectsLeft>>

\* line 402 resumes: setPreferredInputDevice resolved, connect() is issued on
\* the client (line 403); or it rejected and connect() reports and rethrows
ConnectPrefDone(s, ok) ==
  /\ calls[s].op = "connect" /\ calls[s].pc = "awaitPref"
  /\ LET c == calls[s].client
     IN IF ok
          THEN /\ clients' = [clients EXCEPT ![c].preferenceApplied = TRUE,
                                             ![c].connectCalls = @ + 1]
               /\ calls' = [calls EXCEPT ![s].pc = "awaitConnect"]
               /\ lastAction' = Act("connect.prefDone", c, NULL, "pending")
          ELSE /\ calls' = [calls EXCEPT ![s] = IdleCall]
               /\ lastAction' = Failure("connect.prefDone", c, NULL, "rejected",
                                         PreferenceError, PreferenceError)
               /\ UNCHANGED clients
  /\ UNCHANGED <<identityVars, telemetryVars, enablementVars, deviceVars, optionVars, explicitChoice,
                 clientRef, mountedRef, connectsLeft>>

\* a connect() that calls the client's connect() again when it has failed
ConnectDoneRetries(s, ok) ==
  /\ calls[s].op = "connect" /\ calls[s].pc = "awaitConnect"
  /\ IF ok
       THEN /\ calls' = [calls EXCEPT ![s] = IdleCall]
            /\ lastAction' = Act("connect.done", calls[s].client, NULL, "resolved")
            /\ UNCHANGED clients
       ELSE /\ clients' = [clients EXCEPT ![calls[s].client].connectCalls = @ + 1]
            /\ lastAction' = Failure("connect.done", calls[s].client, NULL, "pending",
                                     ConnectError, NULL)
            /\ UNCHANGED calls
  /\ UNCHANGED <<identityVars, telemetryVars, enablementVars, deviceVars, optionVars, explicitChoice,
                 clientRef, mountedRef, connectsLeft>>

\* a connect() that swallows the failure of the client's connect()
ConnectDoneSwallowsError(s, ok) ==
  /\ calls[s].op = "connect" /\ calls[s].pc = "awaitConnect"
  /\ lastAction' = IF ok
                     THEN Act("connect.done", calls[s].client, NULL, "resolved")
                     ELSE Failure("connect.done", calls[s].client, NULL, "resolved",
                                  ConnectError, NULL)
  /\ calls' = [calls EXCEPT ![s] = IdleCall]
  /\ UNCHANGED <<identityVars, telemetryVars, enablementVars, deviceVars, optionVars, explicitChoice,
                 clientRef, clients, mountedRef, connectsLeft>>

\* line 403 resumes: the client's connect() resolved or rejected
ConnectDone(s, ok) ==
  /\ calls[s].op = "connect" /\ calls[s].pc = "awaitConnect"
  /\ LET c == calls[s].client
     IN /\ IF ok /\ clients[c].audioInputEnabled
             THEN \* lines 405-409: refresh the device list without awaiting it
                  /\ refreshesInFlight < MaxRefreshes
                  /\ refreshInputDevicesStart
                  /\ lastAction' = Act("connect.done", c, NULL, "resolved")
             ELSE /\ lastAction' = IF ok
                                       THEN Act("connect.done", c, NULL, "resolved")
                                       ELSE \* lines 410-414
                                            Failure("connect.done", c, NULL, "rejected",
                                                    ConnectError, ConnectError)
                  /\ UNCHANGED <<isInputDeviceListLoading, refreshesInFlight>>
  /\ calls' = [calls EXCEPT ![s] = IdleCall]
  /\ UNCHANGED <<identityVars, telemetryVars, enablementVars, availableInputDevices,
                 activeInputDeviceId, preferredInputDeviceId, preferredInputDeviceRef,
                 inputDeviceListError, optionVars, explicitChoice, clientRef, clients, mountedRef, connectsLeft>>

\* ------------------------------------------------------------------ disconnect
\* a disconnect() that raises when there is no handle
DisconnectThrowsWithoutHandle ==
  /\ IF clientRef = 0
       THEN /\ lastAction' = Failure("disconnect", 0, NULL, "rejected", DisconnectError, NULL)
            /\ UNCHANGED <<clientRef, clients, calls>>
       ELSE /\ FreeSlots # {}
            /\ clientRef' = 0
            /\ clients' = [clients EXCEPT ![clientRef].disconnectCalls = @ + 1]
            /\ calls' = [calls EXCEPT ![NextSlot] =
                           [IdleCall EXCEPT !.op = "disconnect", !.pc = "awaitDisconnect",
                                            !.client = clientRef]]
            /\ lastAction' = Act("disconnect", clientRef, NULL, "pending")
  /\ UNCHANGED <<identityVars, telemetryVars, enablementVars, deviceVars, optionVars, explicitChoice, mountedRef,
                 connectsLeft>>

\* a disconnect() that leaves the handle in the slot while it awaits the teardown
DisconnectAwaitsBeforeClearing ==
  /\ IF clientRef = 0
       THEN /\ lastAction' = Act("disconnect", 0, NULL, "resolved")
            /\ UNCHANGED <<clientRef, clients, calls>>
       ELSE /\ FreeSlots # {}
            /\ clients' = [clients EXCEPT ![clientRef].disconnectCalls = @ + 1]
            /\ calls' = [calls EXCEPT ![NextSlot] =
                           [IdleCall EXCEPT !.op = "disconnect", !.pc = "awaitDisconnect",
                                            !.client = clientRef]]
            /\ lastAction' = Act("disconnect", clientRef, NULL, "pending")
            /\ UNCHANGED clientRef
  /\ UNCHANGED <<identityVars, telemetryVars, enablementVars, deviceVars, optionVars, explicitChoice, mountedRef,
                 connectsLeft>>

\* disconnect(), up to its await
Disconnect ==
  /\ IF clientRef = 0
       THEN \* lines 417-420
            /\ lastAction' = Act("disconnect", 0, NULL, "resolved")
            /\ UNCHANGED <<clientRef, clients, calls>>
       ELSE \* lines 422-426
            /\ FreeSlots # {}
            /\ clientRef' = 0
            /\ clients' = [clients EXCEPT ![clientRef].disconnectCalls = @ + 1]
            /\ calls' = [calls EXCEPT ![NextSlot] =
                           [IdleCall EXCEPT !.op = "disconnect", !.pc = "awaitDisconnect",
                                            !.client = clientRef]]
            /\ lastAction' = Act("disconnect", clientRef, NULL, "pending")
  /\ UNCHANGED <<identityVars, telemetryVars, enablementVars, deviceVars, optionVars, explicitChoice, mountedRef,
                 connectsLeft>>

\* line 426 resumes
DisconnectDone(s, ok) ==
  /\ calls[s].op = "disconnect" /\ calls[s].pc = "awaitDisconnect"
  /\ clients' = [clients EXCEPT ![calls[s].client].tornDown = @ \/ ok]
  /\ calls' = [calls EXCEPT ![s] = IdleCall]
  /\ lastAction' = IF ok
                     THEN Act("disconnect.done", calls[s].client, NULL, "resolved")
                     ELSE Failure("disconnect.done", calls[s].client, NULL, "rejected",
                                  DisconnectError, NULL)
  /\ UNCHANGED <<identityVars, telemetryVars, enablementVars, deviceVars, optionVars, explicitChoice,
                 clientRef, mountedRef, connectsLeft>>

\* ------------------------------------------------------------------ unmount
\* an unmount cleanup that invokes disconnect() and keeps the handle in the slot
UnmountKeepsSlot ==
  /\ mountedRef
  /\ mountedRef' = FALSE
  /\ IF clientRef = 0
       THEN /\ lastAction' = Act("unmount", 0, NULL, "none")
            /\ UNCHANGED clients
       ELSE /\ clients' = [clients EXCEPT ![clientRef].disconnectCalls = @ + 1,
                                          ![clientRef].floating = TRUE]
            /\ lastAction' = Act("unmount", clientRef, NULL, "none")
  /\ UNCHANGED <<identityVars, telemetryVars, enablementVars, deviceVars, optionVars, explicitChoice, clientRef,
                 calls, connectsLeft>>

\* lines 142-146 and 305-312: the cleanups that run when the component
\* unmounts. The promise of disconnect() is neither awaited nor given a handler.
Unmount ==
  /\ mountedRef
  /\ mountedRef' = FALSE
  /\ IF clientRef = 0
       THEN /\ lastAction' = Act("unmount", 0, NULL, "none")
            /\ UNCHANGED <<clientRef, clients>>
       ELSE /\ clients' = [clients EXCEPT ![clientRef].disconnectCalls = @ + 1,
                                          ![clientRef].floating = TRUE]
            /\ clientRef' = 0
            /\ lastAction' = Act("unmount", clientRef, NULL, "none")
  /\ UNCHANGED <<identityVars, telemetryVars, enablementVars, deviceVars, optionVars, explicitChoice, calls,
                 connectsLeft>>

\* line 308: the promise of the cleanup's disconnect() settles; nothing of the
\* hook runs when it does
UnmountDisconnectSettled(c, ok) ==
  /\ c \in Created /\ clients[c].floating
  /\ clients' = [clients EXCEPT ![c].floating = FALSE, ![c].tornDown = @ \/ ok]
  /\ lastAction' = IF ok
                     THEN Act("unmount.disconnectSettled", c, NULL, "none")
                     ELSE Failure("unmount.disconnectSettled", c, NULL, "unhandled",
                                  DisconnectError, NULL)
  /\ UNCHANGED <<identityVars, telemetryVars, enablementVars, deviceVars, optionVars, explicitChoice,
                 clientRef, calls, mountedRef, connectsLeft>>

\* ------------------------------------------------------------------ controls
\* what a control leaves alone: everything but the step record and, for
\* unmute, the suspended calls
controlFrame ==
  UNCHANGED <<identityVars, telemetryVars, enablementVars, deviceVars, optionVars, explicitChoice,
              clientRef, clients, connectsLeft, mountedRef>>

\* clientRef.current.method(), which raises when the slot is empty
optionalCallRequiresHandle(name) ==
  /\ lastAction' = IF clientRef = 0
                     THEN Failure(name, 0, NULL, "rejected", "TypeError", NULL)
                     ELSE Act(name, clientRef, NULL, "called")
  /\ UNCHANGED calls
  /\ controlFrame

\* clientRef.current?.method(): the method is invoked on the handle in the
\* slot, and nothing happens when the slot is empty
optionalCall(name) ==
  /\ lastAction' = Act(name, clientRef, NULL, IF clientRef = 0 THEN "resolved" ELSE "called")
  /\ UNCHANGED calls
  /\ controlFrame

\* lines 315-321
Mute ==
  /\ IF clientRef = 0
       THEN lastAction' = Act("mute", 0, NULL, "resolved")
       ELSE lastAction' = Act("mute", clientRef, NULL, "called")
  /\ UNCHANGED calls
  /\ controlFrame

\* lines 323-329: unmute(), up to its await
Unmute ==
  /\ IF clientRef = 0
       THEN /\ lastAction' = Act("unmute", 0, NULL, "resolved")
            /\ UNCHANGED calls
       ELSE /\ FreeSlots # {}
            /\ calls' = [calls EXCEPT ![NextSlot] =
                           [IdleCall EXCEPT !.op = "unmute", !.pc = "awaitUnmute",
                                            !.client = clientRef]]
            /\ lastAction' = Act("unmute", clientRef, NULL, "pending")
  /\ controlFrame

\* line 328 resumes: the client's unmute() resolved or rejected
UnmuteDone(s, ok) ==
  /\ calls[s].op = "unmute" /\ calls[s].pc = "awaitUnmute"
  /\ calls' = [calls EXCEPT ![s] = IdleCall]
  /\ lastAction' = IF ok
                     THEN Act("unmute.done", calls[s].client, NULL, "resolved")
                     ELSE Failure("unmute.done", calls[s].client, NULL, "rejected",
                                  UnmuteError, NULL)
  /\ controlFrame

\* lines 375-377
TriggerUserTurnStarted == optionalCall("triggerUserTurnStarted")
\* lines 378-380
TriggerUserTurnFinished == optionalCall("triggerUserTurnFinished")
\* lines 381-383
SendClientResponseText == optionalCall("sendClientResponseText")
\* lines 384-386
SendClientResponseData == optionalCall("sendClientResponseData")

\* ------------------------------------------------------------------ audio enablement
\* n calls of refreshInputDevices reach their await in this step (lines 101-103)
startRefreshes(n) ==
  /\ isInputDeviceListLoading' = (IF n > 0 THEN TRUE ELSE isInputDeviceListLoading)
  /\ refreshesInFlight' = refreshesInFlight + n

\* lines 159-167: the effect runs again, and refreshes, after a render in which
\* shouldManageInputDevices has become true
manageEffectRefreshes(nextAudioInput) ==
  IF ~shouldManageInputDevices /\ (autoLoadInputDevices \/ nextAudioInput) THEN 1 ELSE 0

\* what the audio enablement steps leave alone
audioFrame ==
  UNCHANGED <<identityVars, telemetryVars, availableInputDevices, activeInputDeviceId,
              preferredInputDeviceId, preferredInputDeviceRef, inputDeviceListError,
              optionVars, explicitChoice, clientRef, connectsLeft, mountedRef>>

\* lines 331-345: setAudioInput(next), up to the end of its await when there is
\* no handle (the await of undefined ends with nothing in between), else up to
\* the await of the handle's setAudioInput
SetAudioInput(next) ==
  /\ mountedRef
  /\ audioInput' = next
  /\ UNCHANGED audioOutput
  /\ IF clientRef = 0
       THEN LET n == manageEffectRefreshes(next) + (IF next THEN 1 ELSE 0)
            IN /\ refreshesInFlight + n <= MaxRefreshes
               /\ startRefreshes(n)
               /\ lastAction' = Act("setAudioInput", 0, next, "resolved")
               /\ UNCHANGED <<clients, calls>>
       ELSE /\ FreeSlots # {}
            /\ refreshesInFlight + manageEffectRefreshes(next) <= MaxRefreshes
            /\ startRefreshes(manageEffectRefreshes(next))
            /\ clients' = [clients EXCEPT ![clientRef].audioInputEnabled = next]
            /\ calls' = [calls EXCEPT ![NextSlot] =
                           [IdleCall EXCEPT !.op = "setAudioInput", !.pc = "awaitSetAudioInput",
                                            !.client = clientRef, !.audioInput = next]]
            /\ lastAction' = Act("setAudioInput", clientRef, next, "pending")
  /\ audioFrame

\* line 335 resumes: the handle's setAudioInput resolved, and the device list
\* is refreshed when the input was enabled (lines 338-342); or it rejected
SetAudioInputDone(s, ok) ==
  /\ calls[s].op = "setAudioInput" /\ calls[s].pc = "awaitSetAudioInput"
  /\ calls' = [calls EXCEPT ![s] = IdleCall]
  /\ IF ok /\ calls[s].audioInput
       THEN /\ refreshesInFlight < MaxRefreshes
            /\ startRefreshes(1)
       ELSE UNCHANGED <<isInputDeviceListLoading, refreshesInFlight>>
  /\ lastAction' = IF ok
                     THEN Act("setAudioInput.done", calls[s].client, calls[s].audioInput,
                              "resolved")
                     ELSE Failure("setAudioInput.done", calls[s].client, calls[s].audioInput,
                                  "rejected", AudioInputError, NULL)
  /\ UNCHANGED <<enablementVars, clients>>
  /\ audioFrame

\* lines 347-354: setAudioOutput(next), up to its await
SetAudioOutput(next) ==
  /\ mountedRef
  /\ audioOutput' = next
  /\ IF clientRef = 0
       THEN /\ lastAction' = Act("setAudioOutput", 0, next, "resolved")
            /\ UNCHANGED calls
       ELSE /\ FreeSlots # {}
            /\ calls' = [calls EXCEPT ![NextSlot] =
                           [IdleCall EXCEPT !.op = "setAudioOutput", !.pc = "awaitSetAudioOutput",
                                            !.client = clientRef, !.audioOutput = next]]
            /\ lastAction' = Act("setAudioOutput", clientRef, next, "pending")
  /\ UNCHANGED <<audioInput, clients, isInputDeviceListLoading, refreshesInFlight>>
  /\ audioFrame

\* line 351 resumes
SetAudioOutputDone(s, ok) ==
  /\ calls[s].op = "setAudioOutput" /\ calls[s].pc = "awaitSetAudioOutput"
  /\ calls' = [calls EXCEPT ![s] = IdleCall]
  /\ lastAction' = IF ok
                     THEN Act("setAudioOutput.done", calls[s].client, calls[s].audioOutput,
                              "resolved")
                     ELSE Failure("setAudioOutput.done", calls[s].client, calls[s].audioOutput,
                                  "rejected", AudioOutputError, NULL)
  /\ UNCHANGED <<enablementVars, clients, isInputDeviceListLoading, refreshesInFlight>>
  /\ audioFrame

\* ------------------------------------------------------------------ the caller's props
\* lines 133-140: the caller renders the hook with another conversationId and
\* the effect copies it into the ref and the state
SetConversationId(conversationId) ==
  /\ mountedRef
  /\ conversationId # conversationIdRef
  /\ conversationIdRef' = conversationId
  /\ internalConversationId' = conversationId
  /\ firstResolvedId' = UNDEFINED
  /\ lastAction' = Act("setConversationId", 0, conversationId, "none")
  /\ UNCHANGED <<telemetryVars, enablementVars, deviceVars, optionVars, explicitChoice, handleVars, mountedRef>>

\* ------------------------------------------------------------------ client callbacks
\* a client fires callbacks from its construction until a disconnect() on it resolved
CanEmit(c) == c \in Created /\ ~clients[c].tornDown

\* an updater that never lets the server replace the caller's identity
onConnectUpdaterKeepsExplicit(current, conversationId) ==
  IF conversationIdRef = UNDEFINED THEN conversationId ELSE conversationIdRef

\* lines 222-227: the updater given to setInternalConversationId
onConnectUpdater(current, conversationId) ==
  IF conversationIdRef = UNDEFINED
    THEN conversationId
    ELSE Coalesce(conversationId, Coalesce(current, NULL))

\* the connect() calls that await the client's connect() and have not seen
\* its onConnect yet
AwaitingOnConnect(c) ==
  {s \in CallSlots : /\ calls[s].op = "connect" /\ calls[s].pc = "awaitConnect"
                     /\ calls[s].client = c /\ ~calls[s].onConnectFired}

\* lines 221-229; a client fires onConnect once, while the connect() issued on
\* it is pending
OnConnect(c, conversationId) ==
  /\ CanEmit(c)
  /\ AwaitingOnConnect(c) # {}
  /\ internalConversationId' = onConnectUpdater(internalConversationId, conversationId)
  /\ firstResolvedId' = IF /\ firstResolvedId = UNDEFINED
                             /\ conversationIdRef = UNDEFINED
                             /\ conversationId # NULL
                          THEN conversationId
                          ELSE firstResolvedId
  /\ calls' = [s \in CallSlots |->
                 IF s \in AwaitingOnConnect(c)
                   THEN [calls[s] EXCEPT !.onConnectFired = TRUE]
                   ELSE calls[s]]
  /\ lastAction' \in Observed("onConnect", c, conversationId, internalConversationId,
                             onConnectUpdater(internalConversationId, conversationId))
  /\ UNCHANGED <<conversationIdRef, telemetryVars, enablementVars, deviceVars, optionVars, explicitChoice,
                 clientRef, clients, mountedRef, connectsLeft>>

\* lines 242-244
OnStatusChange(c, newStatus) ==
  /\ CanEmit(c)
  /\ status' = newStatus
  /\ lastAction' = Act("onStatusChange", c, newStatus, "none")
  /\ UNCHANGED <<identityVars, userAudioAmplitude, agentAudioAmplitude, userSpeaking,
                 agentSpeaking, isMuted, enablementVars, deviceVars, optionVars, explicitChoice, handleVars,
                 mountedRef>>

\* lines 245-249: the callback exists only when the client was built with monitoring on
OnUserAmplitudeChange(c, amplitude) ==
  /\ CanEmit(c)
  /\ clients[c].enableAmplitudeMonitoring
  /\ userAudioAmplitude' = amplitude
  /\ lastAction' = Act("onUserAmplitudeChange", c, NULL, "none")
  /\ UNCHANGED <<identityVars, status, agentAudioAmplitude, userSpeaking, agentSpeaking,
                 isMuted, enablementVars, deviceVars, optionVars, explicitChoice, handleVars, mountedRef>>

\* lines 250-254
OnAgentAmplitudeChange(c, amplitude) ==
  /\ CanEmit(c)
  /\ clients[c].enableAmplitudeMonitoring
  /\ agentAudioAmplitude' = amplitude
  /\ lastAction' = Act("onAgentAmplitudeChange", c, NULL, "none")
  /\ UNCHANGED <<identityVars, status, userAudioAmplitude, userSpeaking, agentSpeaking,
                 isMuted, enablementVars, deviceVars, optionVars, explicitChoice, handleVars, mountedRef>>

\* lines 255-258
OnUserIsSpeakingChange(c, isSpeaking) ==
  /\ CanEmit(c)
  /\ userSpeaking' = isSpeaking
  /\ clients' = [clients EXCEPT ![c].spoke = TRUE]
  /\ lastAction' \in Observed("onUserIsSpeakingChange", c, NULL, userSpeaking, isSpeaking)
  /\ UNCHANGED <<identityVars, status, userAudioAmplitude, agentAudioAmplitude, agentSpeaking,
                 isMuted, enablementVars, deviceVars, optionVars, explicitChoice, clientRef, calls,
                 connectsLeft, mountedRef>>

\* lines 259-262
OnAgentSpeakingChange(c, isSpeaking) ==
  /\ CanEmit(c)
  /\ agentSpeaking' = isSpeaking
  /\ clients' = [clients EXCEPT ![c].spoke = TRUE]
  /\ lastAction' \in Observed("onAgentSpeakingChange", c, NULL, agentSpeaking, isSpeaking)
  /\ UNCHANGED <<identityVars, status, userAudioAmplitude, agentAudioAmplitude, userSpeaking,
                 isMuted, enablementVars, deviceVars, optionVars, explicitChoice, clientRef, calls,
                 connectsLeft, mountedRef>>

\* lines 263-266
OnMuteStateChange(c, muted) ==
  /\ CanEmit(c)
  /\ isMuted' = muted
  /\ lastAction' \in Observed("onMuteStateChange", c, NULL, isMuted, muted)
  /\ UNCHANGED <<identityVars, status, userAudioAmplitude, agentAudioAmplitude, userSpeaking,
                 agentSpeaking, enablementVars, deviceVars, optionVars, explicitChoice, handleVars, mountedRef>>

\* lines 202-205: the client reports that its audio input was turned on or off
AudioInputChanged(c, next) ==
  /\ CanEmit(c)
  /\ audioInput' = next
  /\ refreshesInFlight + manageEffectRefreshes(next) <= MaxRefreshes
  /\ startRefreshes(manageEffectRefreshes(next))
  /\ clients' = [clients EXCEPT ![c].audioInputEnabled = next]
  /\ lastAction' \in Observed("audioInputChanged", c, NULL, audioInput, next)
  /\ UNCHANGED <<audioOutput, calls>>
  /\ audioFrame

\* lines 206-209
AudioOutputChanged(c, next) ==
  /\ CanEmit(c)
  /\ audioOutput' = next
  /\ lastAction' \in Observed("audioOutputChanged", c, NULL, audioOutput, next)
  /\ UNCHANGED <<audioInput, clients, calls, isInputDeviceListLoading, refreshesInFlight>>
  /\ audioFrame

\* lines 210-216
OnDeviceSwitched(c, deviceId) ==
  /\ CanEmit(c)
  /\ activeInputDeviceId' = normalizeDeviceId(deviceId)
  /\ preferredInputDeviceId' = IF preferredInputDeviceRef = NULL
                                 THEN normalizeDeviceId(deviceId)
                                 ELSE preferredInputDeviceId
  /\ lastAction' = Act("onDeviceSwitched", c, deviceId, "none")
  /\ UNCHANGED <<identityVars, telemetryVars, enablementVars, availableInputDevices,
                 preferredInputDeviceRef, isInputDeviceListLoading, inputDeviceListError,
                 refreshesInFlight, optionVars, explicitChoice, handleVars, mountedRef>>

\* lines 217-220
OnDevicesChanged(c, devices) ==
  /\ CanEmit(c)
  /\ availableInputDevices' = devices
  /\ inputDeviceListError' = NULL
  /\ lastAction' = Act("onDevicesChanged", c, NULL, "none")
  /\ UNCHANGED <<identityVars, telemetryVars, enablementVars, activeInputDeviceId,
                 preferredInputDeviceId, preferredInputDeviceRef, isInputDeviceListLoading,
                 refreshesInFlight, optionVars, explicitChoice, handleVars, mountedRef>>

\* ------------------------------------------------------------------ specifications
\* connect() and disconnect() with the promises of the clients they use
NextHandles ==
  \/ Connect
  \/ \E s \in CallSlots, ok \in BOOLEAN : ConnectTeardownDone(s, ok)
  \/ \E s \in CallSlots, ok \in BOOLEAN : ConnectPrefDone(s, ok)
  \/ \E s \in CallSlots, ok \in BOOLEAN : ConnectDone(s, ok)
  \/ Disconnect
  \/ \E s \in CallSlots, ok \in BOOLEAN : DisconnectDone(s, ok)

\* a caller that passes audioInput: false and autoLoadInputDevices: false, so
\* that no device enumeration takes place
InitHandles == InitWith(UNDEFINED, FALSE, FALSE, MaxClients)
SpecHandles == InitHandles /\ [][NextHandles]_vars

InitSession == InitWith(UNDEFINED, FALSE, FALSE, MaxConnects)

\* the session and the status, amplitude and mute callbacks of its clients
NextTelemetry ==
  \/ NextHandles
  \/ \E c \in 1..MaxClients, st \in Statuses : OnStatusChange(c, st)
  \/ \E c \in 1..MaxClients, a \in Amplitudes : OnUserAmplitudeChange(c, a)
  \/ \E c \in 1..MaxClients, a \in Amplitudes : OnAgentAmplitudeChange(c, a)
  \/ \E c \in 1..MaxClients, b \in BOOLEAN : OnMuteStateChange(c, b)

SpecTelemetry == InitSession /\ [][NextTelemetry]_vars

\* the session and the speaking callbacks of its clients
NextSpeaking ==
  \/ NextHandles
  \/ \E c \in 1..MaxClients, b \in BOOLEAN : OnUserIsSpeakingChange(c, b)
  \/ \E c \in 1..MaxClients, b \in BOOLEAN : OnAgentSpeakingChange(c, b)

SpecSpeaking == InitSession /\ [][NextSpeaking]_vars

\* the session of a caller that never passes a conversationId, and the
\* onConnect callback
NextResolved ==
  \/ NextHandles
  \/ \E c \in 1..MaxClients, id \in ConversationIds \cup {NULL} : OnConnect(c, id)

SpecResolved == InitHandles /\ [][NextResolved]_vars

\* the session, the caller's conversationId prop and the onConnect callback
NextIdentity ==
  \/ NextHandles
  \/ \E id \in ConversationIds \cup {UNDEFINED} : SetConversationId(id)
  \/ \E c \in 1..MaxClients, id \in ConversationIds \cup {NULL} : OnConnect(c, id)

InitIdentity == \E id \in ConversationIds \cup {UNDEFINED} : InitWith(id, FALSE, FALSE, MaxConnects)
SpecIdentity == InitIdentity /\ [][NextIdentity]_vars

\* the device registry and the preference of a caller that never connects
\* (audioInput: false, autoLoadInputDevices left at its default)
NextRegistry ==
  \/ RefreshInputDevices
  \/ \E devices \in DeviceLists(MaxDevices) : RefreshDone(devices)
  \/ RefreshFail
  \/ \E devices \in DeviceLists(MaxDevices) : WatchDelivery(devices)
  \/ \E deviceId \in RawDeviceIds : SelectInputDevice(deviceId)

InitDevices == InitWith(UNDEFINED, FALSE, TRUE, MaxConnects)
SpecRegistry == InitDevices /\ [][NextRegistry]_vars

\* the session and the device preference: selection with and without a
\* handle, and the handle's device-switched notifications
NextPreference ==
  \/ NextHandles
  \/ \E deviceId \in RawDeviceIds : SelectInputDevice(deviceId)
  \/ \E s \in CallSlots, ok \in BOOLEAN : SelectDone(s, ok)
  \/ PreferredInputDeviceEffect
  \/ \E c \in 1..MaxClients, deviceId \in DeviceIds : OnDeviceSwitched(c, deviceId)

SpecPreference == InitSession /\ [][NextPreference]_vars

\* the session with every enumeration step: the refresh started on mount,
\* hot-plug delivery and the handle's devices-changed callback, and the
\* selection of a device
NextDevices ==
  \/ NextHandles
  \/ \E devices \in DeviceLists(MaxSessionDevices) : RefreshDone(devices)
  \/ RefreshFail
  \/ \E devices \in DeviceLists(MaxSessionDevices) : WatchDelivery(devices)
  \/ \E c \in 1..MaxClients, devices \in DeviceLists(MaxSessionDevices) : OnDevicesChanged(c, devices)
  \/ \E deviceId \in {"B", NULL} : SelectInputDevice(deviceId)
  \/ \E s \in CallSlots, ok \in BOOLEAN : SelectDone(s, ok)

SpecDevices == InitDevices /\ [][NextDevices]_vars

\* the session and the controls of the handle: mute, unmute, the turn
\* triggers, the client responses and the selection of a device
NextControls ==
  \/ NextHandles
  \/ Mute
  \/ Unmute
  \/ \E s \in CallSlots, ok \in BOOLEAN : UnmuteDone(s, ok)
  \/ TriggerUserTurnStarted
  \/ TriggerUserTurnFinished
  \/ SendClientResponseText
  \/ SendClientResponseData
  \/ \E deviceId \in {"B", NULL} : SelectInputDevice(deviceId)
  \/ \E s \in CallSlots, ok \in BOOLEAN : SelectDone(s, ok)
  \/ \E c \in 1..MaxClients, b \in BOOLEAN : OnMuteStateChange(c, b)

SpecControls == InitSession /\ [][NextControls]_vars

\* the session of a caller that passes autoLoadInputDevices: false and turns
\* the audio input on and off; enumerations return no device
NextEnablement ==
  \/ NextHandles
  \/ \E next \in BOOLEAN : SetAudioInput(next)
  \/ \E s \in CallSlots, ok \in BOOLEAN : SetAudioInputDone(s, ok)
  \/ RefreshDone(<<>>)
  \/ WatchDelivery(<<>>)

\* the session and the callbacks of its clients that the hook forwards to an
\* observer of the caller after setting its own state
NextObservers ==
  \/ Connect
  \/ \E s \in CallSlots, ok \in BOOLEAN : ConnectPrefDone(s, ok)
  \/ \E s \in CallSlots, ok \in BOOLEAN : ConnectDone(s, ok)
  \/ Disconnect
  \/ \E s \in CallSlots, ok \in BOOLEAN : DisconnectDone(s, ok)
  \/ \E c \in 1..MaxClients, id \in ConversationIds \cup {NULL} : OnConnect(c, id)
  \/ \E c \in 1..MaxClients, b \in BOOLEAN : OnUserIsSpeakingChange(c, b)
  \/ \E c \in 1..MaxClients, b \in BOOLEAN : OnAgentSpeakingChange(c, b)
  \/ \E c \in 1..MaxClients, b \in BOOLEAN : OnMuteStateChange(c, b)
  \/ \E c \in 1..MaxClients, b \in BOOLEAN : AudioInputChanged(c, b)
  \/ \E c \in 1..MaxClients, b \in BOOLEAN : AudioOutputChanged(c, b)
  \/ RefreshDone(<<>>)

InitObservers == InitWith(UNDEFINED, FALSE, FALSE, MaxObservedConnects)
SpecObservers == InitObservers /\ [][NextObservers]_vars

\* the session of a caller that turns the audio output on and off
NextAudioOutput ==
  \/ NextHandles
  \/ \E next \in BOOLEAN : SetAudioOutput(next)
  \/ \E s \in CallSlots, ok \in BOOLEAN : SetAudioOutputDone(s, ok)

SpecAudioOutput == InitSession /\ [][NextAudioOutput]_vars

\* a component that is unmounted: the caller starts no connect() or disconnect()
\* on a component that is gone, calls in flight and promises still settle
NextLifecycle ==
  \/ mountedRef /\ Connect
  \/ \E s \in CallSlots, ok \in BOOLEAN : ConnectTeardownDone(s, ok)
  \/ \E s \in CallSlots, ok \in BOOLEAN : ConnectPrefDone(s, ok)
  \/ \E s \in CallSlots, ok \in BOOLEAN : ConnectDone(s, ok)
  \/ mountedRef /\ Disconnect
  \/ \E s \in CallSlots, ok \in BOOLEAN : DisconnectDone(s, ok)
  \/ Unmount
  \/ \E c \in Created, ok \in BOOLEAN : UnmountDisconnectSettled(c, ok)

SpecLifecycle == InitSession /\ [][NextLifecycle]_vars

\* the caller's choice of a microphone, the enumerations and a connected
\* client that reports the device it switched to
NextDefaultChoice ==
  \/ Connect
  \/ \E s \in CallSlots, ok \in BOOLEAN : ConnectPrefDone(s, ok)
  \/ \E s \in CallSlots, ok \in BOOLEAN : ConnectDone(s, ok)
  \/ \E deviceId \in RawDeviceIds : SelectInputDevice(deviceId)
  \/ \E s \in CallSlots, ok \in BOOLEAN : SelectDone(s, ok)
  \/ PreferredInputDeviceEffect
  \/ RefreshInputDevices
  \/ \E devices \in DeviceLists(MaxDevices) : RefreshDone(devices)
  \/ \E devices \in DeviceLists(MaxDevices) : WatchDelivery(devices)
  \/ \E c \in 1..MaxClients, deviceId \in DeviceIds : OnDeviceSwitched(c, deviceId)

InitDefaultChoice == InitWith(UNDEFINED, FALSE, TRUE, MaxObservedConnects)
SpecDefaultChoice == InitDefaultChoice /\ [][NextDefaultChoice]_vars

InitEnablement == \E ain \in BOOLEAN : InitWith(UNDEFINED, ain, FALSE, MaxConnects)
SpecEnablement == InitEnablement /\ [][NextEnablement]_vars

\* ------------------------------------------------------------------ properties
\* a client is live from its construction until disconnect() is invoked on it
Live(c) == c \in Created /\ clients[c].disconnectCalls = 0

\* the steps in which connect() constructs a client: in the call itself when
\* the slot is empty, else when the awaited teardown has ended
CreatesInCall == lastAction'.name = "connect" /\ Len(clients') = Len(clients) + 1
CreatesAfterTeardown(s) ==
  /\ calls[s].op = "connect" /\ calls[s].pc = "awaitTeardown"
  /\ calls'[s].op = "connect" /\ calls'[s].pc = "awaitPref"
CreationSteps == {"connect", "connect.teardownDone"}
CallbackSteps == {"onConnect", "onStatusChange", "onUserAmplitudeChange", "onAgentAmplitudeChange",
                  "onUserIsSpeakingChange", "onAgentSpeakingChange", "onMuteStateChange",
                  "onDeviceSwitched", "onDevicesChanged"}

\* C1: at most one client is live at any time, whatever the interleaving of
\* connect() and disconnect() calls
C1_AtMostOneLiveClient == Cardinality({c \in Created : Live(c)}) <= 1

\* C2: a callback fired by a client that is not the current handle changes
\* no field of the snapshot
C2_SupersededCallbackIgnored ==
  [][(lastAction'.name \in CallbackSteps /\ lastAction'.client # clientRef)
       => snapshot' = snapshot]_vars

C5_ExplicitAtCallWins ==
  [][/\ (CreatesInCall /\ conversationIdRef # UNDEFINED)
          => clients'[Len(clients')].conversationId = conversationIdRef
     /\ \A s \in CallSlots :
          (CreatesAfterTeardown(s) /\ calls[s].explicitAtCall # UNDEFINED)
            => clients'[Len(clients')].conversationId = calls[s].explicitAtCall]_vars

\* C5 as amended: a client that connect() constructs while the caller supplies
\* an explicit conversationId is constructed with that value, whatever identity
\* earlier connections resolved
C5_ExplicitAtCreationWins ==
  (/\ lastAction.name \in CreationSteps
   /\ lastAction.client # 0
   /\ conversationIdRef # UNDEFINED)
    => clients[lastAction.client].conversationId = conversationIdRef

C5_Witness ==
  /\ lastAction.name = "connect.teardownDone"
  /\ conversationIdRef = "abc"
  /\ internalConversationId = "xyz"
  /\ clients[lastAction.client].conversationId = "abc"

\* C6: once connect() has begun, both amplitudes are 0 until the new handle
\* fires an amplitude callback
C6_AmplitudesZeroAfterConnect ==
  lastAction.name \in CreationSteps
    => (userAudioAmplitude = 0 /\ agentAudioAmplitude = 0)

\* C7: from the step in which connect() installs a new handle, userSpeaking
\* and agentSpeaking are false until that handle fires a speaking callback
C7_SpeakingFalseUntilNewHandleSpeaks ==
  (clientRef # 0 /\ ~clients[clientRef].spoke)
    => (~userSpeaking /\ ~agentSpeaking)

\* C8: selectInputDevice(id) has stored the normalized id as
\* preferredInputDeviceId when it returns or suspends, with or without a
\* handle, and the end of the handle's switch, failed or not, leaves it there
C8_PreferenceStoredImmediately ==
  [][/\ lastAction'.name = "selectInputDevice"
          => preferredInputDeviceId' = (IF lastAction'.arg \in {NULL, "", "default"}
                                          THEN NULL
                                          ELSE lastAction'.arg)
     /\ lastAction'.name = "selectInputDevice.done"
          => preferredInputDeviceId' = preferredInputDeviceId]_vars

C8_Witness ==
  /\ lastAction.name = "selectInputDevice.done"
  /\ lastAction.result = "rejected"
  /\ preferredInputDeviceId = "B"
  /\ inputDeviceListError = SwitchError

\* C9: no enumeration step (the end of a refresh, a hot-plug delivery, a
\* devices-changed callback) and no step of connect() or disconnect() changes
\* preferredInputDeviceId
C9_EnumerationKeepsPreference ==
  [][lastAction'.name \in {"refreshInputDevices", "refresh.done", "watch", "onDevicesChanged",
                           "connect", "connect.teardownDone", "connect.prefDone",
                           "connect.done", "disconnect", "disconnect.done"}
       => preferredInputDeviceId' = preferredInputDeviceId]_vars

C9_Witness ==
  /\ lastAction.name = "watch"
  /\ preferredInputDeviceId = "B"
  /\ Len(availableInputDevices) = 1
  /\ availableInputDevices[1].deviceId = "A"
  /\ clientRef # 0

\* C10 as stated: with a preference for a device recorded, a refresh or a
\* hot-plug delivery of a non-empty list without that device sets
\* activeInputDeviceId to the registry default of the list
C10_ActiveFallsBackToDefault ==
  (/\ lastAction.name \in {"refresh.done", "watch"}
   /\ lastAction.result # "rejected"
   /\ mountedRef
   /\ Len(availableInputDevices) # 0
   /\ preferredInputDeviceId # NULL
   /\ preferredInputDeviceId \notin deviceIdsOf(availableInputDevices))
    => activeInputDeviceId =
         (IF defaultDevice(availableInputDevices).deviceId = "default"
            THEN NULL
            ELSE defaultDevice(availableInputDevices).deviceId)

\* C10 as amended: with a preference for a device recorded, a refresh or a
\* hot-plug delivery of a non-empty list leaves activeInputDeviceId as it was,
\* also when the list no longer contains the preferred device
C10_ActiveKeptWhilePreferenceRecorded ==
  [][(/\ lastAction'.name \in {"refresh.done", "watch"}
      /\ lastAction'.result # "rejected"
      /\ mountedRef
      /\ Len(availableInputDevices') # 0
      /\ preferredInputDeviceRef # NULL)
       => activeInputDeviceId' = activeInputDeviceId]_vars

C10_Witness ==
  /\ lastAction.name = "refresh.done"
  /\ lastAction.result = "resolved"
  /\ preferredInputDeviceId = "B"
  /\ availableInputDevices = <<[deviceId |-> "A", default |-> TRUE]>>
  /\ activeInputDeviceId = NULL

\* a disconnect() awaits the teardown of client c
TeardownPending(c) ==
  \E s \in CallSlots :
    calls[s].op = "disconnect" /\ calls[s].pc = "awaitDisconnect" /\ calls[s].client = c

\* the steps in which the caller invokes a control of the handle
ControlSteps == {"mute", "unmute", "triggerUserTurnStarted", "triggerUserTurnFinished",
                 "sendClientResponseText", "sendClientResponseData"}

\* C11: a disconnect() called while the slot is empty resolves without
\* raising, invokes no operation on any client, suspends nothing and leaves
\* every field of the snapshot as it was
C11_DisconnectWithoutHandleIsNoOp ==
  [][(lastAction'.name = "disconnect" /\ clientRef = 0)
       => /\ lastAction'.result = "resolved"
          /\ lastAction'.error = NULL
          /\ lastAction'.client = 0
          /\ clients' = clients
          /\ calls' = calls
          /\ clientRef' = 0
          /\ snapshot' = snapshot]_vars

C11_Witness ==
  /\ lastAction.name = "disconnect"
  /\ lastAction.result = "resolved"
  /\ clientRef = 0
  /\ Len(clients) = 1
  /\ clients[1].disconnectCalls = 1

C13_SecondConnectSkipsHandleInTeardown ==
  [][\A s \in CallSlots :
       (/\ calls[s].op = "connect" /\ calls[s].pc = "awaitTeardown"
        /\ lastAction'.name = "connect")
         => /\ clientRef # calls[s].client
            /\ clients'[calls[s].client] = clients[calls[s].client]]_vars

\* C14: connect() is issued on a client only while that client is the handle
\* in the slot: a connect() whose client was replaced or cleared while it
\* awaited setPreferredInputDevice does not call connect() on it
C14_NoConnectOnSupersededClient ==
  (lastAction.name = "connect.prefDone" /\ lastAction.result = "pending")
    => clientRef = lastAction.client

\* C15: when setPreferredInputDevice or the client's connect() rejects inside
\* connect(), the caller's onError is called with the error and connect()
\* rejects with the same error
C15_ConnectFailureReportedAndRethrown ==
  (lastAction.name \in {"connect.prefDone", "connect.done"} /\ lastAction.error # NULL)
    => /\ lastAction.onError = lastAction.error
       /\ lastAction.result = "rejected"
       /\ lastAction.error = (IF lastAction.name = "connect.prefDone"
                                THEN PreferenceError
                                ELSE ConnectError)

C15_Witness ==
  /\ lastAction.name = "connect.done"
  /\ lastAction.result = "rejected"
  /\ lastAction.onError = ConnectError
  /\ clientRef = lastAction.client

\* C16: when the disconnect() of the existing handle rejects inside connect(),
\* connect() does not reject: it creates a new client, installs it in the slot
\* and applies the preference to it; and a connect() whose
\* setPreferredInputDevice resolves issues the client's connect()
C16_TeardownFailureDoesNotBlockConnect ==
  [][/\ (lastAction'.name = "connect.teardownDone" /\ lastAction'.error = TeardownError)
          => /\ lastAction'.result = "pending"
             /\ Len(clients') = Len(clients) + 1
             /\ clientRef' = Len(clients')
             /\ \E s \in CallSlots :
                  /\ calls[s].op = "connect" /\ calls[s].pc = "awaitTeardown"
                  /\ calls'[s].op = "connect" /\ calls'[s].pc = "awaitPref"
                  /\ calls'[s].client = clientRef'
     /\ (lastAction'.name = "connect.prefDone" /\ lastAction'.error = NULL)
          => /\ clients'[lastAction'.client].connectCalls =
                  clients[lastAction'.client].connectCalls + 1
             /\ \E s \in CallSlots :
                  /\ calls[s].pc = "awaitPref"
                  /\ calls'[s].pc = "awaitConnect"
                  /\ calls'[s].client = lastAction'.client]_vars

C16_Witness ==
  /\ lastAction.name = "connect.teardownDone"
  /\ lastAction.error = TeardownError
  /\ clientRef = 2
  /\ ~clients[1].tornDown
  /\ \E s \in CallSlots : calls[s].pc = "awaitPref" /\ calls[s].client = 2

C18_RefreshFailureKeepsList ==
  [][(lastAction'.name = "refresh.done" /\ lastAction'.error # NULL /\ mountedRef)
       => /\ inputDeviceListError' \notin {NULL, UNDEFINED, ""}
          /\ lastAction'.result = "rejected"
          /\ availableInputDevices' = availableInputDevices
          /\ activeInputDeviceId' = activeInputDeviceId
          /\ isInputDeviceListLoading' = FALSE]_vars

C18_Witness ==
  /\ lastAction.name = "refresh.done"
  /\ lastAction.result = "rejected"
  /\ Len(availableInputDevices) = 2
  /\ activeInputDeviceId = "B"
  /\ inputDeviceListError = EnumerationError
  /\ ~isInputDeviceListLoading

\* the active device the reconciliation of a list arrives at: null for an
\* empty list; with no preference recorded, the normalized id of the device
\* flagged default, else of the first device; else the active device as it was
ReconciledActiveDevice(devices) ==
  IF Len(devices) = 0
    THEN NULL
    ELSE IF preferredInputDeviceId = NULL
           THEN IF \E i \in DOMAIN devices : devices[i].default
                  THEN LET d == CHOOSE i \in DOMAIN devices : devices[i].default
                       IN IF devices[d].deviceId = "default" THEN NULL ELSE devices[d].deviceId
                  ELSE IF devices[1].deviceId = "default" THEN NULL ELSE devices[1].deviceId
           ELSE activeInputDeviceId

\* C19: a successful refresh and a hot-plug delivery reconcile alike: in every
\* state both arrive at the same active device for every list, and each
\* replaces availableInputDevices by the list, clears the error and sets
\* activeInputDeviceId to the reconciled device
C19_RefreshAndWatchReconcileAlike ==
  [][/\ \A devices \in DeviceLists(MaxDevices) :
          refreshActiveDevice(devices) = watchActiveDevice(devices)
     /\ (/\ lastAction'.name \in {"refresh.done", "watch"}
         /\ lastAction'.error = NULL
         /\ mountedRef)
          => /\ availableInputDevices' = lastAction'.arg
             /\ inputDeviceListError' = NULL
             /\ activeInputDeviceId' = ReconciledActiveDevice(lastAction'.arg)]_vars

C19_Witness ==
  /\ lastAction.name = "watch"
  /\ availableInputDevices = <<[deviceId |-> "A", default |-> FALSE],
                               [deviceId |-> "B", default |-> TRUE]>>
  /\ preferredInputDeviceId = NULL
  /\ activeInputDeviceId = "B"

\* C20: mute(), unmute(), a turn trigger or a client response called while
\* the slot is empty raises nothing, invokes no operation on any client,
\* suspends nothing and leaves every field of the snapshot as it was
C20_ControlsWithoutHandleAreNoOps ==
  [][(lastAction'.name \in ControlSteps /\ clientRef = 0)
       => /\ lastAction'.result = "resolved"
          /\ lastAction'.error = NULL
          /\ lastAction'.client = 0
          /\ clients' = clients
          /\ calls' = calls
          /\ clientRef' = 0
          /\ snapshot' = snapshot]_vars

C20_Witness ==
  /\ lastAction.name = "sendClientResponseText"
  /\ lastAction.result = "resolved"
  /\ lastAction.client = 0
  /\ Len(clients) = 1
  /\ isMuted

\* C21: while autoLoadInputDevices is false and the audio input is disabled,
\* connect() starts no enumeration when the client's connect() has resolved,
\* no other step but the caller's refresh() and setAudioInput() starts one,
\* and no hot-plug delivery arrives
C21_NoEnumerationWhileDisabled ==
  [][/\ (/\ refreshesInFlight' > refreshesInFlight
         /\ lastAction'.name \notin {"refreshInputDevices", "setAudioInput",
                                     "setAudioInput.done"})
          => (autoLoadInputDevices' \/ audioInput')
     /\ lastAction'.name = "watch" => (autoLoadInputDevices \/ audioInput)]_vars

\* C22: a device-switched notification for device d sets activeInputDeviceId
\* to the normalized d; it sets preferredInputDeviceId to the normalized d when
\* no preference is recorded, and leaves a recorded preference as it is
C22_DeviceSwitchedAdoptsOnlyFirst ==
  [][lastAction'.name = "onDeviceSwitched"
       => /\ activeInputDeviceId' = (IF lastAction'.arg = "default" THEN NULL ELSE lastAction'.arg)
          /\ preferredInputDeviceId' =
               (IF preferredInputDeviceId # NULL
                  THEN preferredInputDeviceId
                  ELSE IF lastAction'.arg = "default" THEN NULL ELSE lastAction'.arg)]_vars

\* the callbacks that set a field of the snapshot and then call an observer
ObserverSteps == {"onConnect", "onUserIsSpeakingChange", "onAgentSpeakingChange",
                  "onMuteStateChange", "audioInputChanged", "audioOutputChanged"}
\* the field such a callback sets
ObservedField(name) ==
  CASE name = "onConnect" -> internalConversationId
    [] name = "onUserIsSpeakingChange" -> userSpeaking
    [] name = "onAgentSpeakingChange" -> agentSpeaking
    [] name = "onMuteStateChange" -> isMuted
    [] name = "audioInputChanged" -> audioInput
    [] name = "audioOutputChanged" -> audioOutput

\* C23: when a callback of a handle has set a field of the snapshot and calls
\* the caller's observer, the snapshot the observer can read holds the new
\* value of the field
C23_ObserverSeesUpdatedSnapshot ==
  lastAction.name \in ObserverSteps => lastAction.observed = ObservedField(lastAction.name)

\* C24: selectInputDevice with an empty slot stores the preference, clears the
\* error, calls no client and resolves; with a handle it calls
\* setPreferredInputDevice on the handle and awaits it; when that call
\* rejects, inputDeviceListError is set to the message of the failure and
\* selectInputDevice rejects with the failure
C24_SelectSwitchesOnlyWithHandle ==
  [][/\ (lastAction'.name = "selectInputDevice" /\ clientRef = 0)
          => /\ lastAction'.client = 0
             /\ lastAction'.result = "resolved"
             /\ clients' = clients
             /\ calls' = calls
             /\ inputDeviceListError' = NULL
             /\ preferredInputDeviceId' = normalizeDeviceId(lastAction'.arg)
             /\ activeInputDeviceId' = activeInputDeviceId
             /\ availableInputDevices' = availableInputDevices
     /\ (lastAction'.name = "selectInputDevice" /\ clientRef # 0)
          => /\ lastAction'.client = clientRef
             /\ lastAction'.result = "pending"
             /\ inputDeviceListError' = NULL
             /\ \E s \in CallSlots :
                  /\ calls[s].op = "idle"
                  /\ calls'[s].op = "selectInputDevice"
                  /\ calls'[s].client = clientRef
     /\ (lastAction'.name = "selectInputDevice.done" /\ lastAction'.error # NULL)
          => /\ inputDeviceListError' = lastAction'.error
             /\ lastAction'.result = "rejected"
     /\ (lastAction'.name = "selectInputDevice.done" /\ lastAction'.error = NULL)
          => /\ inputDeviceListError' = inputDeviceListError
             /\ lastAction'.result = "resolved"]_vars

C24_Witness ==
  /\ lastAction.name = "selectInputDevice"
  /\ lastAction.client = 0
  /\ lastAction.arg = "A"
  /\ preferredInputDeviceId = "A"
  /\ inputDeviceListError = NULL
  /\ Len(clients) = 1
  /\ \E s \in CallSlots : calls[s].op = "disconnect"

\* the client connect() calls issued on the clients of a sequence
RECURSIVE SumConnectCalls(_)
SumConnectCalls(cs) ==
  IF cs = <<>> THEN 0 ELSE Head(cs).connectCalls + SumConnectCalls(Tail(cs))

\* C25: a step in which connect(), disconnect() or selectInputDevice() fails
\* issues no operation on any client and suspends nothing; the client's
\* connect() is issued only when a connect() of the caller has seen its
\* setPreferredInputDevice resolve, a client's disconnect() only in the step
\* of a connect() or disconnect() call, and the client connect() calls never
\* outnumber the connect() calls of the caller
C25_NoAutomaticRetry ==
  [][/\ (/\ lastAction'.name \in {"connect.prefDone", "connect.done", "disconnect.done",
                                   "selectInputDevice.done"}
         /\ lastAction'.error # NULL)
          => /\ clients' = clients
             /\ clientRef' = clientRef
             /\ \A s \in CallSlots : calls'[s] = calls[s] \/ calls'[s] = IdleCall
     /\ \A c \in Created :
          /\ clients'[c].connectCalls # clients[c].connectCalls
               => (lastAction'.name = "connect.prefDone" /\ lastAction'.error = NULL)
          /\ clients'[c].disconnectCalls # clients[c].disconnectCalls
               => lastAction'.name \in {"connect", "disconnect"}
     /\ SumConnectCalls(clients') <= MaxConnects - connectsLeft']_vars

C25_Witness ==
  /\ lastAction.name = "connect.done"
  /\ lastAction.result = "rejected"
  /\ connectsLeft = MaxConnects - 1
  /\ SumConnectCalls(clients) = 1
  /\ \A s \in CallSlots : calls[s] = IdleCall

\* the steps of refresh(), of a hot-plug delivery, of connect() and of disconnect()
EnumerationAndSessionSteps ==
  {"refreshInputDevices", "refresh.done", "watch", "connect", "connect.teardownDone",
   "connect.prefDone", "connect.done", "disconnect", "disconnect.done"}

C27_UnmountDisconnectsAndClears ==
  [][/\ lastAction'.name = "unmount" =>
          /\ lastAction'.onError = NULL
          /\ lastAction'.client = clientRef
          /\ clientRef' = 0
          /\ Len(clients') = Len(clients)
          /\ calls' = calls
          /\ \A c \in Created :
                /\ clients'[c].disconnectCalls =
                     clients[c].disconnectCalls + (IF c = clientRef THEN 1 ELSE 0)
                /\ clients'[c].connectCalls = clients[c].connectCalls
     /\ lastAction'.name = "unmount.disconnectSettled" =>
          /\ lastAction'.onError = NULL
          /\ clientRef' = clientRef
          /\ calls' = calls]_vars

C27_Witness ==
  /\ lastAction.name = "unmount"
  /\ lastAction.client = 1
  /\ clients[1].disconnectCalls = 1
  /\ clients[1].connectCalls = 1
  /\ clientRef = 0
  /\ ~mountedRef

\* C28: a step of connect() that creates a client configures it with the
\* audioInput and audioOutput of the snapshot at that step
C28_CreatedWithCurrentEnablement ==
  [][Len(clients') = Len(clients) + 1
       => /\ clients'[Len(clients')].audioInput = audioInput'
          /\ clients'[Len(clients')].audioOutput = audioOutput']_vars

\* C29: while the component is mounted, isInputDeviceListLoading is true
\* exactly when at least one refreshInputDevices() call is in flight
C29_LoadingWhileRefreshInFlight ==
  mountedRef => (isInputDeviceListLoading <=> refreshesInFlight > 0)

\* C30: activeInputDeviceId is null or the normalized id of a device in
\* availableInputDevices
C30_ActiveDeviceIsListed ==
  \/ activeInputDeviceId = NULL
  \/ \E i \in DOMAIN availableInputDevices :
        normalizeDeviceId(availableInputDevices[i].deviceId) = activeInputDeviceId

\* C31: once the component is unmounted and no call of the hook or promise of
\* the cleanup is pending, no client is left that was never disconnected
C31_NoLiveClientAfterUnmount ==
  (/\ ~mountedRef
   /\ \A s \in CallSlots : calls[s].op = "idle"
   /\ \A c \in Created : ~clients[c].floating)
    => \A c \in Created : ~Live(c)

\* C33: the hook invokes disconnect() at most once on each client
C33_DisconnectAtMostOncePerClient ==
  \A c \in Created : clients[c].disconnectCalls <= 1

\* C32: while the caller's last selectInputDevice chose the system default,
\* a refresh or hot-plug delivery of a non-empty list leaves
\* activeInputDeviceId as it is and a device-switched notification leaves
\* preferredInputDeviceId as it is
C32_DefaultChoiceIsSticky ==
  [][(explicitChoice /\ preferredInputDeviceRef = NULL)
       => /\ (/\ lastAction'.name \in {"refresh.done", "watch"}
              /\ availableInputDevices' # <<>>)
               => activeInputDeviceId' = activeInputDeviceId
          /\ lastAction'.name = "onDeviceSwitched"
               => preferredInputDeviceId' = preferredInputDeviceId]_vars

====
